---- MODULE Spec2Model ----
(***************************************************************************)
(* Model of the two cores of marhel/rust-intro:                            *)
(*   src/example.rs  Core: fetch / dispatch / exception loop (execute)     *)
(*   src/lib.rs      FakeCore: interrupt admission over a vectored or an   *)
(*                   auto interrupt controller                             *)
(* The two programs share no state; SpecExec drives the first, SpecIrq the *)
(* second.                                                                 *)
(***************************************************************************)
EXTENDS Integers, Sequences, FiniteSets, TLC

VARIABLES
    \* ---- src/example.rs: struct Core ----
    ir,                 \* u16 instruction register
    pc,                 \* u32 program counter, as [hi, lo] 16-bit halves
    s_flag,             \* u32 supervisor flag
    processing_state,   \* ProcessingState
    ophandlers,         \* InstructionSet: handler of opcode 0x0, of 0xc, and of all others
    overflow_checks,    \* build profile: TRUE = arithmetic overflow panics, FALSE = wraps
    \* ---- execute(): locals and position ----
    at,                 \* "idle" | "loop" | "returned" | "panicked"
    cycles,             \* the budget argument
    remaining_cycles,   \* the local remaining_cycles
    returned,           \* the value returned by the last completed execute
    \* ---- observation of the running call (history, never read by the code) ----
    start_state,        \* processing state when execute was called
    spent,              \* sum of all cycle costs subtracted in this call
    ok_sum,             \* sum of the costs returned by handlers (Ok results) in this call
    raised,             \* some fetch or handler returned Err in this call
    left_normal,        \* the processing state was not Normal at some point of this call
    iters,              \* loop iterations performed in this call
    last,               \* what the last step did
    \* ---- src/lib.rs: struct FakeCore<T: InterruptController> ----
    irq_level,                  \* u8, the level sampled by the last process_interrupt
    irq_mask,                   \* u8
    int_ctrl,                   \* the controller: PeriperhalInterruptController or AutoInterruptController
    interrupt_return_stack,     \* Vec<u8>, top at the end
    vector,                     \* Option<u8>
    \* ---- observation of the last FakeCore / controller call ----
    irq_op,                     \* which call it was, its argument and what it returned
    \* ---- observation of the FakeCore since construction ----
    admitted,                   \* process_interrupt calls that admitted (pushed the mask)
    returns                     \* return_from_interrupt calls that popped

exec_vars == <<ir, pc, s_flag, processing_state, ophandlers, overflow_checks,
               at, cycles, remaining_cycles, returned,
               start_state, spent, ok_sum, raised, left_normal, iters, last>>

irq_vars == <<irq_level, irq_mask, int_ctrl, interrupt_return_stack, vector, irq_op,
              admitted, returns>>

vars == <<exec_vars, irq_vars>>

----------------------------------------------------------------------------
(* Bounds of the explored inputs *)
MaxBudget   == 40     \* largest budget handed to execute
NopCycles   == 4      \* cost of the plain handler
TrapCycles  == 6      \* ea_cycles carried by Trap
BigVector   == 64     \* a vector number whose table offset needs more than 8 bits
SmallVector == 47     \* a vector number whose table offset fits 8 bits
RefundCycles == 5     \* size of the negative cost reported by the refunding handler

\* tests::example_cpu_works: ten laps of jump_away, address error, jump_home
ten_laps == (20 + 50 + 16) * 10

Budgets == {-3, 0, 1, 10, MaxBudget, ten_laps}

----------------------------------------------------------------------------
(* src/example.rs constants *)
EXCEPTION_ADDRESS_ERROR       == 3
EXCEPTION_ILLEGAL_INSTRUCTION == 4
EXCEPTION_PRIVILEGE_VIOLATION == 8

ProcessingState ==
    {"Normal", "Group2Exception", "Group1Exception", "Group0Exception", "Stopped", "Halted"}

running(state) == state \notin {"Stopped", "Halted"}

SUPERVISOR_PROGRAM == [mode |-> "Supervisor", segment |-> "Program"]
USER_PROGRAM       == [mode |-> "User", segment |-> "Program"]

\* any() that also holds for an exhausted budget
any_NonNegative(c) == c >= 0

\* any() that holds for every budget but zero
any_Nonzero(c) == c # 0

\* Cycles::any
any(c) == c > 0

(* u32 values are kept as two 16-bit halves so that the full 32-bit range,
   and wrapping at 2^32, is representable. *)
U32(n) == [hi |-> (n \div 65536) % 65536, lo |-> n % 65536]

wrapping_add(a, n) ==
    LET s == a.lo + n
    IN  [hi |-> (a.hi + s \div 65536) % 65536, lo |-> s % 65536]

wrapping_sub(a, n) ==
    IF a.lo >= n THEN [hi |-> a.hi, lo |-> a.lo - n]
    ELSE [hi |-> (a.hi + 65535) % 65536, lo |-> a.lo + 65536 - n]

\* the Core as one value, for the operators below
self == [ir |-> ir, pc |-> pc, s_flag |-> s_flag, processing_state |-> processing_state]

(* Result<T>: Ok(value) or Err(exception) *)
NoException == [kind |-> "None"]
Ok(v)  == [tag |-> "Ok", value |-> v, err |-> NoException]
Err(e) == [tag |-> "Err", value |-> 0, err |-> e]

AddressError(address, access_type, state, address_space) ==
    [kind |-> "AddressError", address |-> address, access_type |-> access_type,
     processing_state |-> state, address_space |-> address_space]
IllegalInstruction(i, p)          == [kind |-> "IllegalInstruction", ir |-> i, pc |-> p]
Trap(num, ea)                     == [kind |-> "Trap", num |-> num, cycles |-> ea]
PrivilegeViolation(i, p)          == [kind |-> "PrivilegeViolation", ir |-> i, pc |-> p]
UnimplementedInstruction(i, p, v) == [kind |-> "UnimplementedInstruction", ir |-> i, pc |-> p, vector |-> v]

\* Core::read_word ("totally fake": address as u16)
read_word(space, address) == address.lo

\* read_imm_u16 with the PC advanced before the alignment test
read_imm_u16_AdvanceFirst(c) ==
    LET address_space == IF c.s_flag # 0 THEN SUPERVISOR_PROGRAM ELSE USER_PROGRAM
        c2 == [c EXCEPT !.pc = wrapping_add(c.pc, 2)]
    IN  IF c.pc.lo % 2 > 0
        THEN [core |-> c2,
              result |-> Err(AddressError(c.pc, "Read", c.processing_state, address_space))]
        ELSE [core |-> c2, result |-> Ok(read_word(address_space, c.pc))]

\* Core::read_imm_u16: the core afterwards and the Result
read_imm_u16(c) ==
    LET address_space == IF c.s_flag # 0 THEN SUPERVISOR_PROGRAM ELSE USER_PROGRAM
    IN  IF c.pc.lo % 2 > 0
        THEN [core |-> c,
              result |-> Err(AddressError(c.pc, "Read", c.processing_state, address_space))]
        ELSE [core |-> [c EXCEPT !.pc = wrapping_add(c.pc, 2)],
              result |-> Ok(read_word(address_space, c.pc))]

(* Handlers (fn(&mut Core) -> Result<Cycles>).  The first three are the ones
   of tests::fake_instructions; the others are further handlers an
   instruction set may hold: one per Exception variant a handler can return,
   a plain one, one that costs nothing, one that reports a negative cost, and
   two that leave the running states. *)
Handlers ==
    {"illegal_instruction", "jump_away", "jump_home",
     "nop", "free", "refund", "trap_small", "trap_big", "privileged", "line_a", "line_big",
     "stop", "halt"}

ApplyHandler(h, c) ==
    CASE h = "illegal_instruction" ->
            [core |-> c, result |-> Err(IllegalInstruction(c.ir, wrapping_sub(c.pc, 2)))]
      [] h = "jump_away" ->
            [core |-> [c EXCEPT !.pc = U32(2989)], result |-> Ok(20)]
      [] h = "jump_home" ->
            [core |-> [c EXCEPT !.pc = U32(0)], result |-> Ok(16)]
      [] h = "nop" ->
            [core |-> c, result |-> Ok(NopCycles)]
      [] h = "free" ->
            [core |-> c, result |-> Ok(0)]
      [] h = "refund" ->
            [core |-> c, result |-> Ok(0 - RefundCycles)]
      [] h = "trap_small" ->
            [core |-> c, result |-> Err(Trap(SmallVector, TrapCycles))]
      [] h = "trap_big" ->
            [core |-> c, result |-> Err(Trap(BigVector, TrapCycles))]
      [] h = "privileged" ->
            [core |-> c, result |-> Err(PrivilegeViolation(c.ir, wrapping_sub(c.pc, 2)))]
      [] h = "line_a" ->
            [core |-> c, result |-> Err(UnimplementedInstruction(c.ir, wrapping_sub(c.pc, 2), 10))]
      [] h = "line_big" ->
            [core |-> c, result |-> Err(UnimplementedInstruction(c.ir, wrapping_sub(c.pc, 2), 255))]
      [] h = "stop" ->
            [core |-> [c EXCEPT !.processing_state = "Stopped"], result |-> Ok(NopCycles)]
      [] h = "halt" ->
            [core |-> [c EXCEPT !.processing_state = "Halted"], result |-> Ok(NopCycles)]

\* self.ophandlers[opcode as usize]
HandlerAt(table, opcode) ==
    IF opcode = 0 THEN table.op0 ELSE IF opcode = 12 THEN table.opc ELSE table.other

\* tests::fake_instructions
fake_instructions == [op0 |-> "jump_away", opc |-> "jump_home", other |-> "illegal_instruction"]

InstructionSets ==
    [op0 : Handlers, opc : {"jump_home", "nop", "stop"}, other : {"illegal_instruction"}]

(* Core::handle_exception.  vector is a u8 and `vector * 4` is computed in u8
   before the cast: a product above 255 panics when overflow checks are on
   (after processing_state was assigned) and wraps modulo 256 otherwise. *)
handle_exception(c, new_state, pc_arg, vector_no, cyc) ==
    LET c1 == [c EXCEPT !.processing_state = new_state]
    IN  IF vector_no * 4 > 255 /\ overflow_checks
        THEN [panic |-> TRUE, core |-> c1, cycles |-> 0, vector |-> vector_no]
        ELSE [panic |-> FALSE, core |-> [c1 EXCEPT !.pc = U32((vector_no * 4) % 256)],
              cycles |-> cyc, vector |-> vector_no]

handle_address_error(c, bad_address, access_type, state, address_space) ==
    handle_exception(c, "Group1Exception", bad_address, EXCEPTION_ADDRESS_ERROR, 50)

handle_unimplemented_instruction(c, pc_arg, vector_no) ==
    handle_exception(c, "Group2Exception", pc_arg, vector_no, 34)

handle_illegal_instruction(c, pc_arg) ==
    handle_exception(c, "Group1Exception", pc_arg, EXCEPTION_ILLEGAL_INSTRUCTION, 34)

handle_privilege_violation(c, pc_arg) ==
    handle_exception(c, "Group1Exception", pc_arg, EXCEPTION_PRIVILEGE_VIOLATION, 34)

handle_trap(c, trap, cyc) ==
    handle_exception(c, "Group2Exception", c.pc, trap, cyc)

\* the `match err` of execute
MatchErr(c, err) ==
    CASE err.kind = "AddressError" ->
            handle_address_error(c, err.address, err.access_type, err.processing_state, err.address_space)
      [] err.kind = "IllegalInstruction" -> handle_illegal_instruction(c, err.pc)
      [] err.kind = "UnimplementedInstruction" -> handle_unimplemented_instruction(c, err.pc, err.vector)
      [] err.kind = "Trap" -> handle_trap(c, err.num, err.cycles)
      [] err.kind = "PrivilegeViolation" -> handle_privilege_violation(c, err.pc)

\* read_imm_u16().and_then(|opcode| { self.ir = opcode; self.ophandlers[opcode](self) })
FetchAndDispatch(c, table) ==
    LET f == read_imm_u16(c)
    IN  IF f.result.tag = "Err" THEN f
        ELSE ApplyHandler(HandlerAt(table, f.result.value), [f.core EXCEPT !.ir = f.result.value])

\* the return value without the not-running branch
ExecuteResult_AlwaysDifference(budget, remaining, state) == budget - remaining

\* the return value with the overshoot dropped
ExecuteResult_NoOvershoot(budget, remaining, state) ==
    IF remaining < 0 THEN budget ELSE budget - remaining

\* the return value with the operands of the subtraction exchanged
ExecuteResult_Swapped(budget, remaining, state) ==
    IF running(state)
    THEN remaining - budget
    ELSE LET adjust == IF remaining < 0 THEN remaining ELSE 0
         IN  adjust - budget

\* the value execute returns after the loop
ExecuteResult(budget, remaining, state) ==
    IF running(state)
    THEN budget - remaining
    ELSE LET adjust == IF remaining < 0 THEN remaining ELSE 0
         IN  budget - adjust

----------------------------------------------------------------------------
NoStep == [op |-> "none"]

InitExec ==
    /\ ir = 0
    /\ pc \in {U32(0), U32(2989), [hi |-> 65535, lo |-> 65534]}
    /\ s_flag \in {0, 1}
    /\ processing_state \in {"Normal", "Stopped"}
    /\ ophandlers \in InstructionSets
    /\ overflow_checks \in BOOLEAN
    /\ at = "idle"
    /\ cycles = 0
    /\ remaining_cycles = 0
    /\ returned = 0
    /\ start_state = processing_state
    /\ spent = 0
    /\ ok_sum = 0
    /\ raised = FALSE
    /\ left_normal = FALSE
    /\ iters = 0
    /\ last = NoStep
    /\ irq_level = 0
    /\ irq_mask = 0
    /\ int_ctrl = [kind |-> "auto", level |-> 0]
    /\ interrupt_return_stack = <<>>
    /\ vector = <<>>
    /\ irq_op = [op |-> "new", arg |-> 0, ret |-> <<>>]
    /\ admitted = 0
    /\ returns = 0

SetCore(c) ==
    /\ ir' = c.ir
    /\ pc' = c.pc
    /\ s_flag' = c.s_flag
    /\ processing_state' = c.processing_state

\* execute(budget): entry, up to the first evaluation of the loop condition
ExecuteCall(budget) ==
    /\ at \in {"idle", "returned"}
    /\ at' = "loop"
    /\ cycles' = budget
    /\ remaining_cycles' = budget
    /\ start_state' = processing_state
    /\ spent' = 0
    /\ ok_sum' = 0
    /\ raised' = FALSE
    /\ left_normal' = (processing_state # "Normal")
    /\ iters' = 0
    /\ last' = [op |-> "call"]
    /\ returned' = 0
    /\ UNCHANGED <<ir, pc, s_flag, processing_state, ophandlers, overflow_checks>>
    /\ UNCHANGED irq_vars

\* one iteration of the while loop
ExecuteLoop ==
    /\ at = "loop"
    /\ any(remaining_cycles) /\ running(processing_state)
    /\ LET fd   == FetchAndDispatch(self, ophandlers)
           isOk == fd.result.tag = "Ok"
           ex   == IF isOk
                   THEN [panic |-> FALSE, core |-> fd.core, cycles |-> fd.result.value, vector |-> -1]
                   ELSE MatchErr(fd.core, fd.result.err)
       IN  /\ SetCore(ex.core)
           /\ raised' = (raised \/ ~isOk)
           /\ left_normal' = (left_normal \/ fd.core.processing_state # "Normal"
                                          \/ ex.core.processing_state # "Normal")
           /\ iters' = iters + 1
           /\ last' = [op |-> "iter", pc_before |-> pc, state_before |-> processing_state,
                       s_before |-> s_flag, fetch |-> read_imm_u16(self), result |-> fd.result,
                       vector |-> ex.vector, panic |-> ex.panic,
                       remaining_before |-> remaining_cycles, cost |-> ex.cycles]
           /\ IF ex.panic
              THEN /\ at' = "panicked"
                   /\ UNCHANGED <<remaining_cycles, spent, ok_sum>>
              ELSE /\ at' = "loop"
                   /\ remaining_cycles' = remaining_cycles - ex.cycles
                   /\ spent' = spent + ex.cycles
                   /\ ok_sum' = IF isOk THEN ok_sum + ex.cycles ELSE ok_sum
    /\ UNCHANGED <<ophandlers, overflow_checks, cycles, returned, start_state>>
    /\ UNCHANGED irq_vars

\* loop exit and the return expression
ExecuteReturn ==
    /\ at = "loop"
    /\ ~(any(remaining_cycles) /\ running(processing_state))
    /\ at' = "returned"
    /\ returned' = ExecuteResult(cycles, remaining_cycles, processing_state)
    /\ last' = [op |-> "return"]
    /\ UNCHANGED <<ir, pc, s_flag, processing_state, ophandlers, overflow_checks,
                   cycles, remaining_cycles, start_state, spent, ok_sum, raised,
                   left_normal, iters>>
    /\ UNCHANGED irq_vars

\* a direct call of the public handle_exception, between two execute calls
HandleException(new_state, pc_arg, vector_no, cyc) ==
    /\ at \in {"idle", "returned"}
    /\ LET ex == handle_exception(self, new_state, pc_arg, vector_no, cyc)
       IN  /\ SetCore(ex.core)
           /\ at' = IF ex.panic THEN "panicked" ELSE "idle"
           /\ last' = [op |-> "handle_exception", new_state |-> new_state, vector |-> vector_no,
                       panic |-> ex.panic, cycles |-> ex.cycles]
    \* no execute call is in progress: the observation of the last one is dropped
    /\ cycles' = 0 /\ remaining_cycles' = 0 /\ returned' = 0
    /\ start_state' = new_state /\ spent' = 0 /\ ok_sum' = 0
    /\ raised' = FALSE /\ left_normal' = FALSE /\ iters' = 0
    /\ UNCHANGED <<ophandlers, overflow_checks>>
    /\ UNCHANGED irq_vars

Vectors == {EXCEPTION_ADDRESS_ERROR, SmallVector, BigVector, 255}

NextExec ==
    \/ \E b \in Budgets : ExecuteCall(b)
    \/ ExecuteLoop
    \/ ExecuteReturn
    \/ \E st \in ProcessingState, v \in Vectors : HandleException(st, pc, v, 34)

SpecExec == InitExec /\ [][NextExec]_vars

(* One call of execute on a core in any processing state.  execute has no
   suspension point: once called, the loop iteration or the return that is
   possible is taken. *)
InitCall ==
    /\ ir = 0
    /\ pc \in {U32(0), U32(2989), [hi |-> 65535, lo |-> 65534]}
    /\ s_flag \in {0, 1}
    /\ processing_state \in ProcessingState
    /\ ophandlers \in InstructionSets
    /\ overflow_checks \in BOOLEAN
    /\ at = "idle"
    /\ cycles = 0
    /\ remaining_cycles = 0
    /\ returned = 0
    /\ start_state = processing_state
    /\ spent = 0
    /\ ok_sum = 0
    /\ raised = FALSE
    /\ left_normal = FALSE
    /\ iters = 0
    /\ last = NoStep
    /\ irq_level = 0
    /\ irq_mask = 0
    /\ int_ctrl = [kind |-> "auto", level |-> 0]
    /\ interrupt_return_stack = <<>>
    /\ vector = <<>>
    /\ irq_op = [op |-> "new", arg |-> 0, ret |-> <<>>]
    /\ admitted = 0
    /\ returns = 0

FirstCall(budget) ==
    /\ at = "idle"
    /\ ExecuteCall(budget)

\* the budgets of the single call: the long run of ten laps is left to SpecExec
CallBudgets == Budgets \ {ten_laps}

NextCall ==
    \/ \E b \in CallBudgets : FirstCall(b)
    \/ ExecuteLoop
    \/ ExecuteReturn

SpecCall == InitCall /\ [][NextCall]_vars /\ WF_vars(ExecuteLoop \/ ExecuteReturn)

----------------------------------------------------------------------------
(* src/lib.rs *)
MaxStack == 2     \* largest depth of interrupt_return_stack explored
MaxAdmitted == 3  \* largest number of admissions counted

UNINITIALIZED_INTERRUPT == 15
SPURIOUS_INTERRUPT      == 24
AUTOVECTOR_BASE         == 24

(* Option<T>: None or Some(x) *)
None    == <<>>
Some(x) == <<x>>

\* Option::or
or(a, b) == IF a # None THEN a ELSE b

\* Peripheral::vectored / vectored_uninitialized / autovectored
vectored(priority, v) ==
    [priority |-> priority, autovectored |-> FALSE, vector |-> Some(v)]
vectored_uninitialized(priority) ==
    [priority |-> priority, autovectored |-> FALSE, vector |-> None]
autovectored(priority) ==
    [priority |-> priority, autovectored |-> TRUE, vector |-> None]

(* The peripherals the driver owns: rtc, disk and keyboard of
   tests::highest_priority_is_processed_first, a second peripheral on their
   levels, and one peripheral on each remaining level. *)
Peripherals ==
    {vectored(7, 64), autovectored(7),
     autovectored(6),
     autovectored(5), vectored(5, 65),
     vectored(4, 66),
     vectored_uninitialized(3),
     vectored_uninitialized(2), vectored(2, 64),
     autovectored(1)}

\* one peripheral per priority, those of the test among them: what the driver of the core asserts
CorePeripherals ==
    {vectored(7, 64), autovectored(6), autovectored(5), vectored(4, 66),
     vectored_uninitialized(3), vectored_uninitialized(2), autovectored(1)}

Priorities == 1..7

\* PeriperhalInterruptController { highest_priority: 0, asserted: [None; 7] }
EmptyPeripheralController ==
    [kind |-> "peripheral", highest_priority |-> 0, asserted |-> [i \in 0..6 |-> None]]

\* AutoInterruptController { level: 0 }
EmptyAutoController == [kind |-> "auto", level |-> 0]

priority_to_index(priority) == 7 - priority

\* update_asserted that only ever raises the cached highest priority
update_asserted_OnlyRaises(ctrl, index, value) ==
    [ctrl EXCEPT !.asserted = [ctrl.asserted EXCEPT ![index] = value],
                 !.highest_priority = IF value # None /\ 7 - index > ctrl.highest_priority
                                      THEN 7 - index ELSE ctrl.highest_priority]

\* update_asserted that searches the slots from the far end (rposition)
update_asserted_LastPosition(ctrl, index, value) ==
    LET asserted == [ctrl.asserted EXCEPT ![index] = value]
        occupied == {i \in 0..6 : asserted[i] # None}
        position == IF occupied = {} THEN None
                    ELSE Some(CHOOSE i \in occupied : \A j \in occupied : i >= j)
    IN  [ctrl EXCEPT !.asserted = asserted,
                     !.highest_priority = IF position = None THEN 0 ELSE 7 - position[1]]

\* PeriperhalInterruptController::update_asserted: the controller afterwards
update_asserted(ctrl, index, value) ==
    LET asserted == [ctrl.asserted EXCEPT ![index] = value]
        occupied == {i \in 0..6 : asserted[i] # None}
        position == IF occupied = {} THEN None
                    ELSE Some(CHOOSE i \in occupied : \A j \in occupied : i <= j)
    IN  [ctrl EXCEPT !.asserted = asserted,
                     !.highest_priority = IF position = None THEN 0 ELSE 7 - position[1]]

\* PeriperhalInterruptController::request_interrupt
request_interrupt(ctrl, p) ==
    update_asserted(ctrl, priority_to_index(p.priority), Some(p))

\* bit n of a u8
Bit(level, n) == (level \div (2 ^ n)) % 2

\* leading_zeros counted over the seven level bits instead of the eight of a u8
leading_zeros_SevenBits(level) ==
    IF level = 0 THEN 7
    ELSE 6 - (CHOOSE n \in 0..7 : Bit(level, n) = 1 /\ \A m \in (n + 1)..7 : Bit(level, m) = 0)

\* u8::leading_zeros
leading_zeros(level) ==
    IF level = 0 THEN 8
    ELSE 7 - (CHOOSE n \in 0..7 : Bit(level, n) = 1 /\ \A m \in (n + 1)..7 : Bit(level, m) = 0)

\* AutoInterruptController::request_interrupt: level |= 1 << irq - 1
auto_request_interrupt(ctrl, irq) ==
    [ctrl EXCEPT !.level = IF Bit(ctrl.level, irq - 1) = 1 THEN ctrl.level
                           ELSE ctrl.level + 2 ^ (irq - 1)]

\* InterruptController::highest_priority, for either implementation
highest_priority(ctrl) ==
    IF ctrl.kind = "peripheral" THEN ctrl.highest_priority
    ELSE 8 - leading_zeros(ctrl.level)

\* acknowledge_interrupt that resolves the vector but leaves the slot asserted
peripheral_acknowledge_interrupt_KeepsSlot(ctrl, priority) ==
    LET ip == 7 - priority
    IN  IF ctrl.asserted[ip] = None
        THEN [ctrl |-> ctrl, result |-> None, panic |-> FALSE]
        ELSE LET peripheral == ctrl.asserted[ip][1]
             IN  [ctrl |-> ctrl,
                  result |-> Some(IF peripheral.vector # None THEN peripheral.vector[1]
                                  ELSE IF peripheral.autovectored THEN AUTOVECTOR_BASE + priority
                                  ELSE UNINITIALIZED_INTERRUPT),
                  panic |-> FALSE]

(* PeriperhalInterruptController::acknowledge_interrupt: the controller
   afterwards, the Option returned, and whether the call panicked (an index
   outside the seven slots). *)
peripheral_acknowledge_interrupt(ctrl, priority) ==
    LET ip == priority_to_index(priority)
    IN  IF ip \notin 0..6
        THEN [ctrl |-> ctrl, result |-> None, panic |-> TRUE]
        ELSE IF ctrl.asserted[ip] = None
        THEN [ctrl |-> ctrl, result |-> None, panic |-> FALSE]
        ELSE LET peripheral == ctrl.asserted[ip][1]
             IN  [ctrl |-> update_asserted(ctrl, ip, None),
                  result |-> Some(IF peripheral.vector # None THEN peripheral.vector[1]
                                  ELSE IF peripheral.autovectored THEN AUTOVECTOR_BASE + priority
                                  ELSE UNINITIALIZED_INTERRUPT),
                  panic |-> FALSE]

(* AutoInterruptController::acknowledge_interrupt: level &= !(1 << priority - 1).
   `priority - 1` and the shift are u8 arithmetic: for priority 0 or above 8
   they panic when overflow checks are on; otherwise the subtraction wraps and
   the shift amount is taken modulo 8. *)
auto_acknowledge_interrupt(ctrl, priority) ==
    LET shift == (priority + 255) % 256
    IN  IF (priority = 0 \/ shift > 7) /\ overflow_checks
        THEN [ctrl |-> ctrl, result |-> None, panic |-> TRUE]
        ELSE LET n == shift % 8
             IN  [ctrl |-> [ctrl EXCEPT !.level = IF Bit(ctrl.level, n) = 1
                                                  THEN ctrl.level - 2 ^ n ELSE ctrl.level],
                  result |-> Some(AUTOVECTOR_BASE + priority),
                  panic |-> FALSE]

\* InterruptController::acknowledge_interrupt, for either implementation
acknowledge_interrupt(ctrl, priority) ==
    IF ctrl.kind = "peripheral" THEN peripheral_acknowledge_interrupt(ctrl, priority)
    ELSE auto_acknowledge_interrupt(ctrl, priority)

\* admission that lets a level equal to the mask through
Admits_GreaterOrEqual(old_level, new_level, mask) ==
    new_level >= mask \/ (old_level # 7 /\ new_level = 7)

\* admission with a level-triggered NMI
Admits_LevelTriggeredNmi(old_level, new_level, mask) ==
    new_level > mask \/ new_level = 7

\* admission with the mask comparison reversed
Admits_Reversed(old_level, new_level, mask) ==
    new_level < mask \/ (old_level # 7 /\ new_level = 7)

\* admission whose edge test looks only at the previous level
Admits_EdgeWithoutLevel(old_level, new_level, mask) ==
    new_level > mask \/ old_level # 7

\* the admission test of process_interrupt
Admits(old_level, new_level, mask) ==
    LET edge_triggered_nmi == old_level # 7 /\ new_level = 7
    IN  new_level > mask \/ edge_triggered_nmi

----------------------------------------------------------------------------
\* initial (irq_mask, irq_level) of FakeCore::new: those of the tests, and a previous level of 2
InitMasks  == {0, 6, 7}
InitLevels == {0, 2, 7}

ExecAtRest ==
    /\ ir = 0
    /\ pc = U32(0)
    /\ s_flag = 0
    /\ processing_state = "Normal"
    /\ ophandlers = fake_instructions
    /\ at = "idle"
    /\ cycles = 0
    /\ remaining_cycles = 0
    /\ returned = 0
    /\ start_state = "Normal"
    /\ spent = 0
    /\ ok_sum = 0
    /\ raised = FALSE
    /\ left_normal = FALSE
    /\ iters = 0
    /\ last = NoStep

\* FakeCore::new(irq_mask, irq_level, int_ctrl)
InitIrq ==
    /\ ExecAtRest
    /\ overflow_checks \in BOOLEAN
    /\ irq_mask \in InitMasks
    /\ irq_level \in InitLevels
    /\ int_ctrl \in {EmptyPeripheralController, EmptyAutoController}
    /\ interrupt_return_stack = <<>>
    /\ vector = None
    /\ irq_op = [op |-> "new", arg |-> 0, ret |-> None]
    /\ admitted = 0
    /\ returns = 0

IrqReady == irq_op.op # "panic"

\* return_from_interrupt that reads the top of the stack without removing it
ReturnFromInterrupt_Peek ==
    /\ irq_op.op # "panic"
    /\ interrupt_return_stack # <<>>
    /\ irq_mask' = interrupt_return_stack[Len(interrupt_return_stack)]
    /\ irq_op' = [op |-> "return", arg |-> 0, ret |-> None]
    /\ returns' = returns + 1
    /\ UNCHANGED <<irq_level, int_ctrl, vector, interrupt_return_stack, admitted>>
    /\ UNCHANGED exec_vars

\* return_from_interrupt that unwinds to the outermost saved mask in one call
ReturnFromInterrupt_Unwind ==
    /\ IrqReady
    /\ interrupt_return_stack # <<>>
    /\ irq_mask' = interrupt_return_stack[1]
    /\ interrupt_return_stack' = <<>>
    /\ irq_op' = [op |-> "return", arg |-> 0, ret |-> None]
    /\ returns' = returns + 1
    /\ UNCHANGED <<irq_level, int_ctrl, vector, admitted>>
    /\ UNCHANGED exec_vars

\* FakeCore::return_from_interrupt: pop().unwrap() panics on an empty stack
ReturnFromInterrupt ==
    /\ IrqReady
    /\ IF interrupt_return_stack = <<>>
       THEN /\ irq_op' = [op |-> "panic", arg |-> 0, ret |-> None]
            /\ UNCHANGED <<irq_mask, interrupt_return_stack, returns>>
       ELSE /\ irq_mask' = interrupt_return_stack[Len(interrupt_return_stack)]
            /\ interrupt_return_stack' =
                   SubSeq(interrupt_return_stack, 1, Len(interrupt_return_stack) - 1)
            /\ irq_op' = [op |-> "return", arg |-> 0, ret |-> None]
            /\ returns' = returns + 1
    /\ UNCHANGED <<irq_level, int_ctrl, vector, admitted>>
    /\ UNCHANGED exec_vars

\* process_interrupt that acknowledges the sampled level before the admission test
ProcessInterrupt_AckFirst ==
    /\ IrqReady
    /\ LET old_level == irq_level
           new_level == highest_priority(int_ctrl)
           ack       == IF new_level = 0
                        THEN [ctrl |-> int_ctrl, result |-> None, panic |-> FALSE]
                        ELSE acknowledge_interrupt(int_ctrl, new_level)
       IN  /\ Admits(old_level, new_level, irq_mask) =>
                  Len(interrupt_return_stack) < MaxStack /\ admitted < MaxAdmitted
           /\ admitted' = IF Admits(old_level, new_level, irq_mask) THEN admitted + 1
                          ELSE admitted
           /\ UNCHANGED returns
           /\ irq_level' = new_level
           /\ int_ctrl' = ack.ctrl
           /\ irq_op' = [op |-> "process", arg |-> 0, ret |-> None]
           /\ IF Admits(old_level, new_level, irq_mask)
              THEN /\ interrupt_return_stack' = Append(interrupt_return_stack, irq_mask)
                   /\ irq_mask' = new_level
                   /\ vector' = or(ack.result, Some(SPURIOUS_INTERRUPT))
              ELSE /\ vector' = None
                   /\ UNCHANGED <<irq_mask, interrupt_return_stack>>
    /\ UNCHANGED exec_vars

\* process_interrupt that saves the mask but does not raise it to the admitted level
ProcessInterrupt_KeepsMask ==
    /\ IrqReady
    /\ LET old_level == irq_level
           new_level == highest_priority(int_ctrl)
           ack       == acknowledge_interrupt(int_ctrl, new_level)
       IN  /\ Admits(old_level, new_level, irq_mask) =>
                  Len(interrupt_return_stack) < MaxStack /\ admitted < MaxAdmitted
           /\ admitted' = IF Admits(old_level, new_level, irq_mask) THEN admitted + 1
                          ELSE admitted
           /\ UNCHANGED returns
           /\ irq_level' = new_level
           /\ irq_op' = [op |-> "process", arg |-> 0, ret |-> None]
           /\ UNCHANGED irq_mask
           /\ IF Admits(old_level, new_level, irq_mask)
              THEN /\ interrupt_return_stack' = Append(interrupt_return_stack, irq_mask)
                   /\ int_ctrl' = ack.ctrl
                   /\ vector' = or(ack.result, Some(SPURIOUS_INTERRUPT))
              ELSE /\ vector' = None
                   /\ UNCHANGED <<int_ctrl, interrupt_return_stack>>
    /\ UNCHANGED exec_vars

\* FakeCore::process_interrupt
ProcessInterrupt ==
    /\ IrqReady
    /\ LET old_level == irq_level
           new_level == highest_priority(int_ctrl)
           ack       == acknowledge_interrupt(int_ctrl, new_level)
       IN  /\ Admits(old_level, new_level, irq_mask) =>
                  Len(interrupt_return_stack) < MaxStack /\ admitted < MaxAdmitted
           /\ admitted' = IF Admits(old_level, new_level, irq_mask) THEN admitted + 1
                          ELSE admitted
           /\ UNCHANGED returns
           /\ irq_level' = new_level
           /\ IF Admits(old_level, new_level, irq_mask)
              THEN /\ interrupt_return_stack' = Append(interrupt_return_stack, irq_mask)
                   /\ irq_mask' = new_level
                   /\ int_ctrl' = ack.ctrl
                   /\ IF ack.panic
                      THEN /\ irq_op' = [op |-> "panic", arg |-> 0, ret |-> None]
                           /\ UNCHANGED vector
                      ELSE /\ vector' = or(ack.result, Some(SPURIOUS_INTERRUPT))
                           /\ irq_op' = [op |-> "process", arg |-> 0, ret |-> None]
              ELSE /\ vector' = None
                   /\ irq_op' = [op |-> "process", arg |-> 0, ret |-> None]
                   /\ UNCHANGED <<irq_mask, int_ctrl, interrupt_return_stack>>
    /\ UNCHANGED exec_vars

\* the driver: core.int_ctrl.request_interrupt(&p) on the vectored controller
RequestInterrupt(p) ==
    /\ IrqReady
    /\ int_ctrl.kind = "peripheral"
    /\ int_ctrl' = request_interrupt(int_ctrl, p)
    /\ irq_op' = [op |-> "request", arg |-> 0, ret |-> None]
    /\ UNCHANGED <<irq_level, irq_mask, interrupt_return_stack, vector, admitted, returns>>
    /\ UNCHANGED exec_vars

\* the driver: core.int_ctrl.request_interrupt(irq) on the auto controller
AutoRequestInterrupt(irq) ==
    /\ IrqReady
    /\ int_ctrl.kind = "auto"
    /\ int_ctrl' = auto_request_interrupt(int_ctrl, irq)
    /\ irq_op' = [op |-> "request", arg |-> 0, ret |-> None]
    /\ UNCHANGED <<irq_level, irq_mask, interrupt_return_stack, vector, admitted, returns>>
    /\ UNCHANGED exec_vars

\* the driver: core.int_ctrl.acknowledge_interrupt(priority), outside process_interrupt
AcknowledgeInterrupt(priority) ==
    /\ IrqReady
    /\ LET ack == acknowledge_interrupt(int_ctrl, priority)
       IN  /\ int_ctrl' = ack.ctrl
           /\ irq_op' = [op |-> IF ack.panic THEN "panic" ELSE "acknowledge",
                         arg |-> priority, ret |-> ack.result]
    /\ UNCHANGED <<irq_level, irq_mask, interrupt_return_stack, vector, admitted, returns>>
    /\ UNCHANGED exec_vars

\* the core with its controller: the calls the tests make
NextIrq ==
    \/ ProcessInterrupt
    \/ ReturnFromInterrupt
    \/ \E p \in CorePeripherals : RequestInterrupt(p)
    \/ \E irq \in Priorities : AutoRequestInterrupt(irq)

SpecIrq == InitIrq /\ [][NextIrq]_vars

\* a controller driven on its own: any sequence of requests and acknowledges
NextCtrl ==
    \/ \E p \in Peripherals : RequestInterrupt(p)
    \/ \E irq \in Priorities : AutoRequestInterrupt(irq)
    \/ \E priority \in Priorities : AcknowledgeInterrupt(priority)

SpecCtrl == InitIrq /\ [][NextCtrl]_vars

(* The tests' drain: FakeCore::new(0, 0, ..), the requests first, then
   process_interrupt followed by (return_from_interrupt; process_interrupt)
   for as long as the last process_interrupt admitted. *)
InitDrain ==
    /\ InitIrq
    /\ irq_mask = 0
    /\ irq_level = 0

DrainRequest(p) ==
    /\ irq_op.op \in {"new", "request"}
    /\ RequestInterrupt(p)

DrainAutoRequest(irq) ==
    /\ irq_op.op \in {"new", "request"}
    /\ AutoRequestInterrupt(irq)

DrainProcess ==
    /\ irq_op.op \in {"new", "request", "return"}
    /\ ProcessInterrupt

DrainReturn ==
    /\ irq_op.op = "process"
    /\ vector # None
    /\ ReturnFromInterrupt

NextDrain ==
    \/ \E p \in Peripherals : DrainRequest(p)
    \/ \E irq \in Priorities : DrainAutoRequest(irq)
    \/ DrainProcess
    \/ DrainReturn

SpecDrain == InitDrain /\ [][NextDrain]_vars

----------------------------------------------------------------------------
(* Properties *)

Min(a, b) == IF a < b THEN a ELSE b

\* C1: the value execute(b) returns is b - remaining when the processing state
\* is running at loop exit and b - min(remaining, 0) when it is Stopped or
\* Halted, remaining being b minus the sum of the cycle costs subtracted.
C1_ReturnValue ==
    at = "returned" =>
        LET remaining == cycles - spent
        IN  /\ remaining_cycles = remaining
            /\ returned = IF running(processing_state) THEN cycles - remaining
                          ELSE cycles - Min(remaining, 0)

\* C1 witness: a call that ran, ended not running with budget left, and reported the whole budget
C1_Witness ==
    /\ at = "returned"
    /\ ~running(processing_state)
    /\ iters > 0
    /\ cycles - spent > 0
    /\ returned = cycles

\* C2: for a budget b >= 0, when no fetch or handler raised an exception and
\* the state stayed Normal, execute(b) returns the sum of the cycle counts the
\* handlers returned in that call.
C2_SumOfHandlerCycles ==
    (at = "returned" /\ cycles >= 0 /\ ~raised /\ ~left_normal) => returned = ok_sum

\* C2 witness: three handlers ran without exception and overshot the budget
C2_Witness ==
    /\ at = "returned"
    /\ cycles >= 0 /\ ~raised /\ ~left_normal
    /\ iters = 3
    /\ returned > cycles

\* C3: after handle_exception(new_state, pc, vector, cycles), called directly
\* or from execute, the program counter equals vector * 4, for every vector
\* in 0..255.
C3_PcIsVectorTimes4 ==
    (last.op \in {"handle_exception", "iter"} /\ last.vector >= 0) =>
        (~last.panic /\ pc = U32(last.vector * 4))

\* PC + 2 modulo 2^32, on the two halves
Plus2(p) ==
    IF p.lo < 65534 THEN [hi |-> p.hi, lo |-> p.lo + 2]
    ELSE [hi |-> IF p.hi = 65535 THEN 0 ELSE p.hi + 1, lo |-> p.lo - 65534]

\* C4: read_imm_u16 fails exactly when PC is odd; on an even PC it succeeds
\* and leaves PC = old PC + 2 (mod 2^32); on an odd PC it returns AddressError
\* with address = PC, access Read, the current processing state and the
\* program space of the supervisor flag, and leaves PC unchanged.
C4_Fetch ==
    last.op = "iter" =>
        LET f == last.fetch
        IN  IF last.pc_before.lo % 2 = 1
            THEN /\ f.result.tag = "Err"
                 /\ f.result.err =
                        [kind |-> "AddressError", address |-> last.pc_before,
                         access_type |-> "Read", processing_state |-> last.state_before,
                         address_space |-> IF last.s_before # 0 THEN SUPERVISOR_PROGRAM
                                           ELSE USER_PROGRAM]
                 /\ f.core.pc = last.pc_before
            ELSE /\ f.result.tag = "Ok"
                 /\ f.core.pc = Plus2(last.pc_before)

\* C4 witness: a fetch in supervisor mode failed on an odd PC
C4_Witness ==
    /\ last.op = "iter"
    /\ last.fetch.result.tag = "Err"
    /\ last.pc_before.lo % 2 = 1
    /\ last.s_before # 0

\* the per-kind table of exception processing
ExceptionRow(e) ==
    CASE e.kind = "AddressError" -> [state |-> "Group1Exception", vector |-> 3, cycles |-> 50]
      [] e.kind = "IllegalInstruction" -> [state |-> "Group1Exception", vector |-> 4, cycles |-> 34]
      [] e.kind = "PrivilegeViolation" -> [state |-> "Group1Exception", vector |-> 8, cycles |-> 34]
      [] e.kind = "Trap" -> [state |-> "Group2Exception", vector |-> e.num, cycles |-> e.cycles]
      [] e.kind = "UnimplementedInstruction" ->
            [state |-> "Group2Exception", vector |-> e.vector, cycles |-> 34]

\* C5: inside execute every exception result is turned into its row of the
\* per-kind table (state, vector, cycles subtracted), and the loop goes on to
\* its next iteration because the resulting state is running.
C5_ExceptionTable ==
    (last.op = "iter" /\ last.result.tag = "Err") =>
        LET row == ExceptionRow(last.result.err)
        IN  /\ processing_state = row.state
            /\ last.vector = row.vector
            /\ remaining_cycles = last.remaining_before - row.cycles
            /\ running(processing_state)
            /\ at = "loop"

\* C6: process_interrupt admits exactly when the freshly sampled level is
\* above irq_mask, or the previous level was not 7 and the new one is 7; on
\* admission the old mask is pushed, irq_mask becomes the new level and the
\* pending vector is the controller's acknowledge result, or 0x18 for None;
\* otherwise nothing is pushed and the pending vector is None.
C6_Admission ==
    [][irq_op'.op = "process" =>
        LET new_level == highest_priority(int_ctrl)
            admit     == new_level > irq_mask \/ (irq_level # 7 /\ new_level = 7)
            acked     == acknowledge_interrupt(int_ctrl, new_level).result
        IN  /\ irq_level' = new_level
            /\ admit =>
                /\ interrupt_return_stack' = Append(interrupt_return_stack, irq_mask)
                /\ irq_mask' = new_level
                /\ vector' = IF acked = None THEN Some(24) ELSE acked
                /\ vector' # None
            /\ ~admit =>
                /\ interrupt_return_stack' = interrupt_return_stack
                /\ irq_mask' = irq_mask
                /\ vector' = None
    ]_vars

\* C6 witness: a nested admission delivered the rtc vector
C6_Witness ==
    /\ irq_op.op = "process"
    /\ Len(interrupt_return_stack) = 2
    /\ irq_mask = 7
    /\ vector = Some(64)

\* C7: when the controller reports level 7, process_interrupt admits even
\* with irq_mask = 7 if the previously sampled level was not 7, and does not
\* admit (pending vector None) if the previous level was 7 and irq_mask is 7.
C7_NmiEdge ==
    [][(irq_op'.op = "process" /\ highest_priority(int_ctrl) = 7) =>
        /\ irq_level # 7 =>
            /\ vector' # None
            /\ interrupt_return_stack' = Append(interrupt_return_stack, irq_mask)
            /\ irq_mask' = 7
        /\ (irq_level = 7 /\ irq_mask = 7) =>
            /\ vector' = None
            /\ interrupt_return_stack' = interrupt_return_stack
            /\ irq_mask' = 7
    ]_vars

\* C7 witness: a level-7 request was admitted over a mask of 7
C7_Witness ==
    /\ irq_op.op = "process"
    /\ vector # None
    /\ irq_level = 7
    /\ interrupt_return_stack # <<>>
    /\ interrupt_return_stack[Len(interrupt_return_stack)] = 7

\* C8: return_from_interrupt on a non-empty stack sets irq_mask to the former
\* top of the stack, removes that entry, and leaves the pending vector and the
\* sampled irq_level unchanged.
C8_ReturnFromInterrupt ==
    [][(irq_op'.op = "return" /\ interrupt_return_stack # <<>>) =>
        /\ irq_mask' = interrupt_return_stack[Len(interrupt_return_stack)]
        /\ interrupt_return_stack' =
               SubSeq(interrupt_return_stack, 1, Len(interrupt_return_stack) - 1)
        /\ vector' = vector
        /\ irq_level' = irq_level
    ]_vars

\* C8 witness: a return from a nested interrupt, with the vector still pending
C8_Witness ==
    /\ irq_op.op = "return"
    /\ Len(interrupt_return_stack) = 1
    /\ vector # None
    /\ irq_mask < irq_level

OccupiedPriorities(ctrl) == {p \in 1..7 : ctrl.asserted[7 - p] # None}

\* C9: in the vectored controller, after any sequence of requests and
\* acknowledges with priorities 1..7 from the empty controller,
\* highest_priority() is the largest priority whose slot is occupied, or 0.
C9_HighestPriority ==
    int_ctrl.kind = "peripheral" =>
        LET occ == OccupiedPriorities(int_ctrl)
        IN  /\ occ = {} => highest_priority(int_ctrl) = 0
            /\ occ # {} => /\ highest_priority(int_ctrl) \in occ
                           /\ \A p \in occ : p <= highest_priority(int_ctrl)

\* C9 witness: level 7 was acknowledged and the highest priority fell to 5, level 2 still pending
C9_Witness ==
    /\ int_ctrl.kind = "peripheral"
    /\ irq_op.op = "acknowledge" /\ irq_op.arg = 7 /\ irq_op.ret = Some(64)
    /\ OccupiedPriorities(int_ctrl) = {2, 5}
    /\ highest_priority(int_ctrl) = 5

\* C10: in the vectored controller acknowledge_interrupt(priority) returns
\* None and changes nothing when the slot is empty; otherwise it empties
\* exactly that slot and returns the vector of the peripheral in it (explicit
\* vector, else 0x18 + priority if autovectored, else 0x0F); a request puts
\* its peripheral into the slot of its priority over whatever was there, so
\* the slot holds the most recently asserted one.
C10_Acknowledge ==
    [][int_ctrl.kind = "peripheral" =>
        /\ \A priority \in 1..7 :
            (irq_op'.op = "acknowledge" /\ irq_op'.arg = priority) =>
                LET slot == int_ctrl.asserted[7 - priority]
                IN  IF slot = None
                    THEN irq_op'.ret = None /\ int_ctrl' = int_ctrl
                    ELSE /\ int_ctrl'.asserted = [int_ctrl.asserted EXCEPT ![7 - priority] = None]
                         /\ irq_op'.ret =
                                Some(IF slot[1].vector # None THEN slot[1].vector[1]
                                     ELSE IF slot[1].autovectored THEN 24 + priority
                                     ELSE 15)
        /\ irq_op'.op = "request" =>
            \E p \in Peripherals :
                int_ctrl'.asserted = [int_ctrl.asserted EXCEPT ![7 - p.priority] = Some(p)]
    ]_vars

\* C10 witness: the disk was acknowledged with its autovector while level 7 stayed asserted
C10_Witness ==
    /\ int_ctrl.kind = "peripheral"
    /\ irq_op.op = "acknowledge" /\ irq_op.arg = 5 /\ irq_op.ret = Some(29)
    /\ int_ctrl.asserted[2] = None
    /\ int_ctrl.asserted[0] # None

\* the levels whose bit is set in the bitmap of the auto controller
PendingLevels(ctrl) == {n \in 1..8 : (ctrl.level \div (2 ^ (n - 1))) % 2 = 1}

\* C11: in the auto controller, from bitmap 0 and under any sequence of
\* request_interrupt(irq) and acknowledge_interrupt(priority) with arguments
\* in 1..7, a request adds its level to the pending ones, an acknowledge
\* removes its level and returns Some(0x18 + priority), and
\* highest_priority() is the largest pending level, or 0 when there is none.
C11_AutoController ==
    /\ [](int_ctrl.kind = "auto" =>
            LET pending == PendingLevels(int_ctrl)
            IN  /\ pending \subseteq 1..7
                /\ pending = {} => highest_priority(int_ctrl) = 0
                /\ pending # {} => /\ highest_priority(int_ctrl) \in pending
                                   /\ \A n \in pending : n <= highest_priority(int_ctrl))
    /\ [][int_ctrl.kind = "auto" =>
            /\ irq_op'.op = "request" =>
                \E irq \in 1..7 :
                    PendingLevels(int_ctrl') = PendingLevels(int_ctrl) \cup {irq}
            /\ irq_op'.op = "acknowledge" =>
                /\ irq_op'.arg \in 1..7
                /\ irq_op'.ret = Some(24 + irq_op'.arg)
                /\ PendingLevels(int_ctrl') = PendingLevels(int_ctrl) \ {irq_op'.arg}
       ]_vars

\* C11 witness: of the requested levels 2, 5 and 7, level 7 was acknowledged with 0x1F and 5 is now the highest
C11_Witness ==
    /\ int_ctrl.kind = "auto"
    /\ irq_op.op = "acknowledge" /\ irq_op.arg = 7 /\ irq_op.ret = Some(31)
    /\ int_ctrl.level = 18
    /\ highest_priority(int_ctrl) = 5

(* C15: a process_interrupt that does not admit (sampled level <= irq_mask and
   no NMI edge) sets the pending vector to None, leaves irq_mask, the return
   stack and the controller unchanged, and updates only the remembered level. *)
C15_NoAdmitFrame ==
    [][(/\ irq_op'.op = "process"
        /\ highest_priority(int_ctrl) <= irq_mask
        /\ ~(irq_level # 7 /\ highest_priority(int_ctrl) = 7))
       => /\ vector' = None
          /\ irq_mask' = irq_mask
          /\ interrupt_return_stack' = interrupt_return_stack
          /\ int_ctrl' = int_ctrl
          /\ irq_level' = highest_priority(int_ctrl)
      ]_vars

\* maskable_interrupts: levels 2 and 5 stay asserted behind mask 6
C15_Witness ==
    /\ irq_op.op = "process"
    /\ int_ctrl.kind = "auto"
    /\ int_ctrl.level = 18
    /\ irq_mask = 6
    /\ irq_level = 5
    /\ interrupt_return_stack = <<>>
    /\ vector = None

(* C17: irq_mask <= 7, and the masks saved on the return stack are
   non-decreasing from bottom to top with the top entry <= irq_mask. *)
C17_MaskOrder ==
    /\ irq_mask <= 7
    /\ \A i \in 1..Len(interrupt_return_stack) : \A j \in i..Len(interrupt_return_stack) :
           interrupt_return_stack[i] <= interrupt_return_stack[j]
    /\ interrupt_return_stack # <<>> =>
           interrupt_return_stack[Len(interrupt_return_stack)] <= irq_mask

\* two nested admissions, the second one an NMI edge behind mask 7
C17_Witness ==
    /\ interrupt_return_stack = <<6, 7>>
    /\ irq_mask = 7
    /\ irq_op.op = "process"

(* C18: a process_interrupt directly after another process_interrupt, with no
   request and no return in between, does not admit: the pending vector is
   None and irq_mask and the return stack are unchanged. *)
C18_SecondProcessBlocked ==
    [][(irq_op.op = "process" /\ irq_op'.op = "process")
       => /\ vector' = None
          /\ irq_mask' = irq_mask
          /\ interrupt_return_stack' = interrupt_return_stack
      ]_vars

\* level 7 in service, level 5 sampled and still pending behind it
C18_Witness ==
    /\ irq_op.op = "process"
    /\ irq_mask = 7
    /\ interrupt_return_stack = <<0>>
    /\ irq_level = 5
    /\ highest_priority(int_ctrl) = 5
    /\ vector = None

(* C19: process_interrupt acknowledges only priorities 1..7: whenever the next
   process_interrupt would admit, the sampled level is in 1..7, its slot index
   is in 0..6 and acknowledge_interrupt does not panic; and no step that
   pushes on the return stack ends in a panic. *)
C19_AcknowledgeInRange ==
    /\ [](LET new_level == highest_priority(int_ctrl)
          IN  (IrqReady /\ (new_level > irq_mask \/ (irq_level # 7 /\ new_level = 7)))
              => /\ new_level \in 1..7
                 /\ priority_to_index(new_level) \in 0..6
                 /\ (new_level + 255) % 256 \in 0..6
                 /\ ~acknowledge_interrupt(int_ctrl, new_level).panic)
    /\ [][irq_op'.op = "panic" => interrupt_return_stack' = interrupt_return_stack]_vars

\* the lowest priority admitted and acknowledged: autovector 0x19
C19_Witness ==
    /\ irq_op.op = "process"
    /\ vector = Some(AUTOVECTOR_BASE + 1)
    /\ irq_mask = 1
    /\ irq_level = 1
    /\ interrupt_return_stack = <<0>>

(* C13: from a freshly constructed core, under process_interrupt,
   return_from_interrupt on a non-empty stack and controller requests, the
   depth of the return stack is the number of admitted interrupts minus the
   number of return_from_interrupt calls. *)
C13_StackDepth ==
    Len(interrupt_return_stack) = admitted - returns

\* two admissions outstanding after one earlier admission has returned
C13_Witness ==
    /\ IrqReady
    /\ admitted = 3
    /\ returns = 1
    /\ Len(interrupt_return_stack) = 2

\* the priorities asserted in a controller, and the vector each one delivers
Pending(ctrl) ==
    IF ctrl.kind = "peripheral" THEN OccupiedPriorities(ctrl) ELSE PendingLevels(ctrl)

Highest(S) == CHOOSE n \in S : \A m \in S : m <= n

VectorOf(ctrl, n) ==
    IF ctrl.kind = "auto" THEN 24 + n
    ELSE LET peripheral == ctrl.asserted[7 - n][1]
         IN  IF peripheral.vector # None THEN peripheral.vector[1]
             ELSE IF peripheral.autovectored THEN 24 + n
             ELSE 15

(* C12: from irq_mask 0, previous level 0 and an empty stack, with all
   requests made first, process_interrupt followed by repeated
   (return_from_interrupt; process_interrupt) admits the asserted priorities
   one per process_interrupt in strictly descending order, each time
   delivering that priority's vector and setting irq_mask to it, and the
   process_interrupt that finds nothing asserted yields the vector None. *)
C12_HighestFirst ==
    /\ [](Len(interrupt_return_stack) <= 1)
    /\ [][irq_op'.op = "process" =>
            LET pending == Pending(int_ctrl)
            IN  IF pending # {}
                THEN LET top == Highest(pending)
                     IN  /\ vector' = Some(VectorOf(int_ctrl, top))
                         /\ irq_mask' = top
                         /\ irq_level' = top
                         /\ Pending(int_ctrl') = pending \ {top}
                         /\ interrupt_return_stack' = <<0>>
                         /\ irq_op.op = "return" => top < irq_level
                ELSE /\ vector' = None
                     /\ irq_mask' = 0
                     /\ interrupt_return_stack' = <<>>
       ]_vars

\* rtc, disk and keyboard admitted and returned from, then nothing left
C12_Witness ==
    /\ irq_op.op = "process"
    /\ int_ctrl.kind = "peripheral"
    /\ admitted = 3
    /\ returns = 3
    /\ Pending(int_ctrl) = {}
    /\ vector = None
    /\ irq_mask = 0
    /\ irq_level = 0

(* C14: for every budget (positive, zero or negative) and every handler
   table, when the processing state is running at the start of the call, the
   value execute returns is >= 0. *)
C14_NonNegativeReturn ==
    (at = "returned" /\ start_state \notin {"Stopped", "Halted"}) => returned >= 0

\* a negative budget, running: no iteration, and 0 is returned
C14_Witness ==
    /\ at = "returned"
    /\ start_state = "Normal"
    /\ cycles = -3
    /\ iters = 0
    /\ returned = 0

\* every Ok cost and every Trap ea_cycles a handler of the table reports is >= 1
CostsPositive(table) ==
    \A h \in {table.op0, table.opc, table.other} :
        LET r == ApplyHandler(h, self).result
        IN  /\ r.tag = "Ok" => r.value >= 1
            /\ (r.tag = "Err" /\ r.err.kind = "Trap") => r.err.cycles >= 1

(* C16: for a budget b > 0, a state that stays running and strictly positive
   costs, the value r that execute returns satisfies b <= r < b + c, c being
   the cost of the last instruction or exception processed in the call. *)
C16_StopsAtBoundary ==
    [][(/\ at = "loop"
        /\ at' = "returned"
        /\ cycles > 0
        /\ start_state \notin {"Stopped", "Halted"}
        /\ processing_state \notin {"Stopped", "Halted"}
        /\ CostsPositive(ophandlers))
       => /\ last.op = "iter"
          /\ last.cost >= 1
          /\ cycles <= returned'
          /\ returned' < cycles + last.cost
      ]_vars

\* ten laps of 86 cycles: thirty iterations, and exactly the budget is reported
C16_Witness ==
    /\ at = "returned"
    /\ ophandlers = fake_instructions
    /\ cycles = ten_laps
    /\ iters = 30
    /\ returned = ten_laps
    /\ pc = U32(0)
    /\ processing_state = "Group1Exception"

(* C20: when every handler cost and every Trap ea_cycles is >= 1, execute(b)
   performs at most max(b, 0) loop iterations and then ends; it performs
   none when b <= 0 or the starting state is Stopped or Halted, and PC, IR
   and the processing state are then as they were at the call. *)
C20_Terminates ==
    /\ [](CostsPositive(ophandlers) => iters <= (IF cycles > 0 THEN cycles ELSE 0))
    /\ [][iters' = iters + 1 => (cycles > 0 /\ start_state \notin {"Stopped", "Halted"})]_vars
    /\ [][((at # "loop" /\ at' = "loop") \/ (at = "loop" /\ at' = "returned"))
          => (pc' = pc /\ ir' = ir /\ processing_state' = processing_state)]_vars
    /\ [](at = "loop" => <>(at # "loop"))

\* the bound is met: budget 1, one iteration
C20_Witness ==
    /\ at = "returned"
    /\ CostsPositive(ophandlers)
    /\ cycles = 1
    /\ iters = 1

====
